---- MODULE Spec2Model ----
(***************************************************************************)
(* The tee-time agent: one run of cli -> run -> TeeTimeAgent._run_async_impl *)
(* with the TeeSheetBrowser session, the OllamaClient retry loop and the    *)
(* Telegram delivery.  Every await of the code is one step; every external  *)
(* call may return or raise.                                                *)
(***************************************************************************)
EXTENDS Integers, Sequences, FiniteSets, TLC

VARIABLES
    pc,          \* position of the run
    targets,     \* TeeTimeAgent.targets: the dates to inspect, in selection order
    idx,         \* index of the loop in progress (over targets, then over snapshots)
    instances,   \* number of TeeSheetBrowser objects constructed so far
    playwright,  \* TeeSheetBrowser._playwright and the driver behind it
    browser,     \* TeeSheetBrowser._browser and the browser behind it
    context,     \* the browser context created in __aenter__ (page.context)
    page,        \* TeeSheetBrowser._page
    snapshots,   \* _run_async_impl: snapshots
    attempt,     \* tenacity attempt number of the analyse_snapshot call in progress
    analysis,    \* the TeeSheetAnalysis awaiting delivery ("None" when there is none)
    delivered,   \* _run_async_impl: delivered
    failures,    \* _run_async_impl: failures
    events,      \* the events yielded by _run_async_impl, in order
    calls,       \* every external call made so far, in order, with its result
    exitStatus,  \* exit status of cli (-1 while the process runs)
    input,       \* the arguments of the function under check (NoValue in a run)
    output,      \* what the function under check returned or raised
    inflight,    \* the awaited calls that have started and not yet returned or raised
    frame        \* collect_report: its local variables and the exception in flight

vars == <<pc, targets, idx, instances, playwright, browser, context, page, snapshots,
          attempt, analysis, delivered, failures, events, calls, exitStatus,
          input, output, inflight, frame>>

\* No arguments, no result.
NoValue == [type |-> "none"]

\* The largest number of targets of a run; dates are 1..MaxTargets, ordered as
\* their ISO strings are.
MaxTargets == 2

Dates == 1..MaxTargets

\* date_window.TargetDate lists: any dates without repetition, in any order.
TargetLists ==
    UNION { { s \in [1..n -> Dates] : \A i, j \in 1..n : i # j => s[i] # s[j] }
            : n \in 0..MaxTargets }

\* tenacity: stop=stop_after_attempt(3)
StopAfterAttemptMutant == 3 + 1
StopAfterAttempt == 3

\* tenacity: reraise=True
Reraise == TRUE

\* TeeSheetBrowser.__init__: every field starts as None.
InitFieldMutant == "running"
InitField == "None"

----------------------------------------------------------------------------
\* Helpers

Call(op, t, ok) == [op |-> op, t |-> t, ok |-> ok, inst |-> instances]

\* TeeTimeAgent._text_event
TextEvent(kind, t, final) == [kind |-> kind, t |-> t, final |-> final]

\* sorted(delivered): insertion of each element into an ascending sequence.
RECURSIVE Insert(_, _)
Insert(x, s) ==
    IF s = <<>> THEN <<x>>
    ELSE IF x <= Head(s) THEN <<x>> \o s
    ELSE <<Head(s)>> \o Insert(x, Tail(s))

SortedMutant(s) == s
RECURSIVE Sorted(_)
Sorted(s) == IF s = <<>> THEN <<>> ELSE Insert(Head(s), Sorted(Tail(s)))

\* The final "Delivery summary" text of _run_async_impl, field by field.
SummaryEvent(d, f) ==
    [kind |-> "summary", t |-> 0, final |-> TRUE,
     succeeded |-> Len(d), failed |-> Len(f),
     deliveredDates |-> Sorted(d), failureLines |-> f]

----------------------------------------------------------------------------
Init ==
    /\ pc = "cli"
    /\ targets \in TargetLists
    /\ idx = 0
    /\ instances = 0
    /\ playwright = "None"
    /\ browser = "None"
    /\ context = "None"
    /\ page = "None"
    /\ snapshots = <<>>
    /\ attempt = 0
    /\ analysis = "None"
    /\ delivered = <<>>
    /\ failures = <<>>
    /\ events = <<>>
    /\ calls = <<>>
    /\ exitStatus = -1
    /\ input = NoValue
    /\ output = NoValue
    /\ inflight = {}
    /\ frame = NoValue

\* main.run up to runner.run_async: the agent and the InMemoryRunner are built
\* and the session is created; a failure here leaves run with an exception.
RunnerSetup ==
    /\ pc = "cli"
    /\ \E ok \in BOOLEAN :
        /\ calls' = Append(calls, Call("create_session", 0, ok))
        /\ pc' = IF ok THEN "start" ELSE "raised"
    /\ UNCHANGED <<frame, input, output, inflight, targets, idx, instances, playwright, browser, context, page,
                   snapshots, attempt, analysis, delivered, failures, events, exitStatus>>

NoTargetsMutant ==
    /\ pc = "start"
    /\ targets = <<>>
    /\ events' = Append(events, TextEvent("no_targets", 0, TRUE))
    /\ instances' = instances + 1
    /\ pc' = "aenter_playwright"
    /\ UNCHANGED <<frame, input, output, inflight, targets, idx, playwright, browser, context, page,
                   snapshots, attempt, analysis, delivered, failures, calls, exitStatus>>

\* _run_async_impl, "if not self.targets": one final event, return.
NoTargets ==
    /\ pc = "start"
    /\ targets = <<>>
    /\ events' = Append(events, TextEvent("no_targets", 0, TRUE))
    /\ pc' = "returned"
    /\ UNCHANGED <<frame, input, output, inflight, targets, idx, instances, playwright, browser, context, page,
                   snapshots, attempt, analysis, delivered, failures, calls, exitStatus>>

\* snapshots = []; TeeSheetBrowser(self.settings): the constructor sets the fields.
Construct ==
    /\ pc = "start"
    /\ targets # <<>>
    /\ snapshots' = <<>>
    /\ instances' = instances + 1
    /\ playwright' = InitField
    /\ browser' = "None"
    /\ page' = "None"
    /\ pc' = "aenter_playwright"
    /\ UNCHANGED <<frame, input, output, inflight, targets, idx, context, attempt, analysis, delivered, failures,
                   events, calls, exitStatus>>

\* _run_async_impl, "except Exception as exc" around the session: the final
\* "Playwright session failed" event, then return.
OuterExceptMutant ==
    /\ events' = Append(events, TextEvent("session_failed", 0, FALSE))
    /\ pc' = "returned"

OuterExcept ==
    /\ events' = Append(events, TextEvent("session_failed", 0, TRUE))
    /\ pc' = "returned"

\* __aenter__: async_playwright().start()
StartPlaywright ==
    /\ pc = "aenter_playwright"
    /\ \E ok \in BOOLEAN :
        /\ calls' = Append(calls, Call("start_playwright", 0, ok))
        /\ IF ok
           THEN /\ playwright' = "running"
                /\ pc' = "aenter_launch"
                /\ UNCHANGED events
           ELSE /\ OuterExcept
                /\ UNCHANGED playwright
    /\ UNCHANGED <<frame, input, output, inflight, targets, idx, instances, browser, context, page, snapshots,
                   attempt, analysis, delivered, failures, exitStatus>>

\* __aenter__: self._playwright.chromium.launch(...)
LaunchBrowser ==
    /\ pc = "aenter_launch"
    /\ \E ok \in BOOLEAN :
        /\ calls' = Append(calls, Call("launch", 0, ok))
        /\ IF ok
           THEN /\ browser' = "open"
                /\ pc' = "aenter_context"
                /\ UNCHANGED events
           ELSE /\ OuterExcept
                /\ UNCHANGED browser
    /\ UNCHANGED <<frame, input, output, inflight, targets, idx, instances, playwright, context, page, snapshots,
                   attempt, analysis, delivered, failures, exitStatus>>

\* __aenter__: self._browser.new_context()
NewContext ==
    /\ pc = "aenter_context"
    /\ \E ok \in BOOLEAN :
        /\ calls' = Append(calls, Call("new_context", 0, ok))
        /\ IF ok
           THEN /\ context' = "open"
                /\ pc' = "aenter_page"
                /\ UNCHANGED events
           ELSE /\ OuterExcept
                /\ UNCHANGED context
    /\ UNCHANGED <<frame, input, output, inflight, targets, idx, instances, playwright, browser, page, snapshots,
                   attempt, analysis, delivered, failures, exitStatus>>

\* __aenter__: context.new_page()
NewPage ==
    /\ pc = "aenter_page"
    /\ \E ok \in BOOLEAN :
        /\ calls' = Append(calls, Call("new_page", 0, ok))
        /\ IF ok
           THEN /\ page' = "set"
                /\ pc' = "aenter_login"
                /\ UNCHANGED events
           ELSE /\ OuterExcept
                /\ UNCHANGED page
    /\ UNCHANGED <<frame, input, output, inflight, targets, idx, instances, playwright, browser, context, snapshots,
                   attempt, analysis, delivered, failures, exitStatus>>

\* The awaited call the run is positioned at: the network operations (login,
\* fetch, generate attempt, delivery) and the close of the page's context.
CallAt ==
    CASE pc = "aenter_login" -> [op |-> "login", t |-> 0]
      [] pc = "fetch" -> [op |-> "fetch", t |-> targets[idx]]
      [] pc = "aexit_context" -> [op |-> "close_context", t |-> 0]
      [] pc = "analyse" -> [op |-> "generate", t |-> snapshots[idx].target]
      [] pc = "deliver" -> [op |-> "post", t |-> analysis.target]

CurrentCall == [op |-> CallAt.op, t |-> CallAt.t, n |-> Len(calls) + 1]

\* The run is at a call site whose call is made (post only once format_message
\* has returned, close only when there is a page).
HasCall ==
    \/ pc \in {"aenter_login", "fetch", "analyse"}
    \/ pc = "deliver" /\ analysis.notes_are_text
    \/ pc = "aexit_context" /\ page # "None"

\* await: the coroutine goes on only when the call has returned or raised, so
\* the call is no longer in flight.
CompleteMutant(calling, call) == calling
Complete(calling, call) == calling \ {call}

\* The call expression is evaluated and the request is under way; the
\* coroutine is suspended until the call's own action completes it.
StartCall ==
    /\ HasCall
    /\ CurrentCall \notin inflight
    /\ inflight' = inflight \cup {CurrentCall}
    /\ UNCHANGED <<frame, input, output, pc, targets, idx, instances, playwright, browser, context,
                   page, snapshots, attempt, analysis, delivered, failures, events, calls,
                   exitStatus>>

\* What the portal does with a login: the submission goes through and leaves the
\* login page, a page operation raises, or the page is still the login page.
LoginOutcomes == {"ok", "raise", "still_on_login"}

\* _login raises when there is no page, when a page operation raises, and when the
\* URL after the submission still contains "login".
LoginRaisesMutant(pg, outcome) == pg = "None" \/ outcome = "raise"
LoginRaises(pg, outcome) == pg = "None" \/ outcome # "ok"

\* __aenter__: await self._login(); return self.  The body of the async with
\* starts with the first target.
Login ==
    /\ pc = "aenter_login"
    /\ CurrentCall \in inflight
    /\ inflight' = Complete(inflight, CurrentCall)
    /\ \E outcome \in LoginOutcomes :
        /\ calls' = Append(calls, Call("login", 0, outcome = "ok"))
        /\ IF LoginRaises(page, outcome)
           THEN /\ OuterExcept
                /\ UNCHANGED idx
           ELSE /\ pc' = "fetch"
                /\ idx' = 1
                /\ UNCHANGED events
    /\ UNCHANGED <<frame, input, output, targets, instances, playwright, browser, context, page, snapshots,
                   attempt, analysis, delivered, failures, exitStatus>>

\* snapshot_for_date: "raise", or the fragment the Snapshot is built from.
SnapshotForDate(pg, gotoOk, idleOk, tablePresent, readOk) ==
    IF pg = "None" THEN "raise"
    ELSE IF ~gotoOk THEN "raise"
    ELSE IF ~idleOk THEN "raise"
    ELSE IF ~tablePresent
         THEN (IF readOk THEN "page" ELSE "raise")
         ELSE (IF readOk THEN "table" ELSE "raise")

\* The for loop over self.targets: the index of the target attempted after the
\* fetch of target i raised (the inner except yields an event and the loop goes on).
AfterFetchErrorMutant(i) == Len(targets) + 1
AfterFetchError(i) == i + 1

\* One iteration of "for target in self.targets"; after the last one the body of
\* the async with is left and __aexit__ starts.
Fetch ==
    /\ pc = "fetch"
    /\ CurrentCall \in inflight
    /\ inflight' = Complete(inflight, CurrentCall)
    /\ \E gotoOk, idleOk, tablePresent, readOk \in BOOLEAN :
        LET t == targets[idx]
            r == SnapshotForDate(page, gotoOk, idleOk, tablePresent, readOk)
            next == IF r = "raise" THEN AfterFetchError(idx) ELSE idx + 1
        IN  /\ calls' = Append(calls, Call("fetch", t, r # "raise"))
            /\ IF r = "raise"
               THEN /\ events' = Append(events, TextEvent("fetch_failed", t, FALSE))
                    /\ UNCHANGED snapshots
               ELSE /\ snapshots' = Append(snapshots, [target |-> t, fragment |-> r])
                    /\ events' = Append(events, TextEvent("fetched", t, FALSE))
            /\ idx' = next
            /\ pc' = IF next > Len(targets) THEN "aexit_context" ELSE "fetch"
    /\ UNCHANGED <<frame, input, output, targets, instances, playwright, browser, context, page,
                   attempt, analysis, delivered, failures, exitStatus>>

\* __aexit__: if self._page: await self._page.context.close()
CloseContext ==
    /\ pc = "aexit_context"
    /\ IF page = "None"
       THEN /\ pc' = "aexit_browser"
            /\ UNCHANGED <<context, events, calls, inflight>>
       ELSE \E ok \in BOOLEAN :
            /\ CurrentCall \in inflight
            /\ inflight' = Complete(inflight, CurrentCall)
            /\ calls' = Append(calls, Call("close_context", 0, ok))
            /\ IF ok
               THEN /\ context' = "closed"
                    /\ pc' = "aexit_browser"
                    /\ UNCHANGED events
               ELSE /\ OuterExcept
                    /\ UNCHANGED context
    /\ UNCHANGED <<frame, input, output, targets, idx, instances, playwright, browser, page, snapshots,
                   attempt, analysis, delivered, failures, exitStatus>>

\* __aexit__: if self._browser: await self._browser.close()
CloseBrowser ==
    /\ pc = "aexit_browser"
    /\ IF browser = "None"
       THEN /\ pc' = "aexit_playwright"
            /\ UNCHANGED <<browser, events, calls>>
       ELSE \E ok \in BOOLEAN :
            /\ calls' = Append(calls, Call("close_browser", 0, ok))
            /\ IF ok
               THEN /\ browser' = "closed"
                    /\ pc' = "aexit_playwright"
                    /\ UNCHANGED events
               ELSE /\ OuterExcept
                    /\ UNCHANGED browser
    /\ UNCHANGED <<frame, input, output, inflight, targets, idx, instances, playwright, context, page, snapshots,
                   attempt, analysis, delivered, failures, exitStatus>>

AfterSessionMutant ==
    /\ pc' = "analyse"
    /\ idx' = 1
    /\ attempt' = 0
    /\ UNCHANGED events

\* After the async with: "if not snapshots" ends the run with a final event;
\* otherwise delivered = [], failures = [] and the loop over snapshots starts.
AfterSession ==
    IF snapshots = <<>>
    THEN /\ events' = Append(events, TextEvent("nothing_captured", 0, TRUE))
         /\ pc' = "returned"
         /\ UNCHANGED <<idx, attempt>>
    ELSE /\ pc' = "analyse"
         /\ idx' = 1
         /\ attempt' = 0
         /\ UNCHANGED events

\* __aexit__: if self._playwright: await self._playwright.stop()
StopPlaywright ==
    /\ pc = "aexit_playwright"
    /\ IF playwright = "None"
       THEN /\ AfterSession
            /\ UNCHANGED <<playwright, calls>>
       ELSE \E ok \in BOOLEAN :
            /\ calls' = Append(calls, Call("stop_playwright", 0, ok))
            /\ IF ok
               THEN /\ playwright' = "stopped"
                    /\ AfterSession
               ELSE /\ OuterExcept
                    /\ UNCHANGED <<playwright, idx, attempt>>
    /\ delivered' = <<>>
    /\ failures' = <<>>
    /\ UNCHANGED <<frame, input, output, inflight, targets, instances, browser, context, page, snapshots,
                   analysis, exitStatus>>

\* What the generate endpoint's body decodes to: the JSON object analyse_snapshot
\* reads with .get, giving slots whose notes are text or None ("object") or a
\* slot whose notes value is a number, list or object, which analyse_snapshot
\* keeps as it is ("object_notes_not_text"); or something else (a list, a
\* number), on which parsed.get raises ("not_object").
ResponseShapes == {"object", "object_notes_not_text", "not_object"}

\* tenacity at the stop condition: with reraise=True the last attempt's own
\* exception is raised, otherwise a RetryError.
RetryExhausted(reraise) == IF reraise THEN "transport" ELSE "RetryError"

\* analyse_snapshot, "except RetryError": a RetryError becomes the RuntimeError
\* "Failed communicating with Ollama after retries"; anything else passes through.
AnalyseSnapshotError(exc) == IF exc = "RetryError" THEN "wrapped" ELSE exc

\* End of one iteration of "for record in snapshots" with lists d, f and events ev:
\* the next record, or after the last one the final summary event.
NextRecord(d, f, ev) ==
    /\ delivered' = d
    /\ failures' = f
    /\ analysis' = "None"
    /\ IF idx < Len(snapshots)
       THEN /\ idx' = idx + 1
            /\ attempt' = 0
            /\ pc' = "analyse"
            /\ events' = ev
       ELSE /\ events' = Append(ev, SummaryEvent(d, f))
            /\ pc' = "returned"
            /\ UNCHANGED <<idx, attempt>>

\* _run_async_impl, "except Exception" around analyse_snapshot: one failure line,
\* one event, continue.
AnalysisFailed(t, exc) ==
    NextRecord(delivered,
               Append(failures, [stage |-> "analysis", t |-> t, err |-> exc]),
               Append(events, TextEvent("analysis_failed", t, FALSE)))

\* One attempt of _invoke_generate (client.post, raise_for_status, response.json)
\* and what follows it without a further await: the retry decision, or the rest of
\* analyse_snapshot and the "Analysed" event.
Generate ==
    /\ pc = "analyse"
    /\ CurrentCall \in inflight
    /\ inflight' = Complete(inflight, CurrentCall)
    /\ \E ok \in BOOLEAN, shape \in ResponseShapes :
        LET t == snapshots[idx].target
            n == attempt + 1
        IN  /\ calls' = Append(calls, Call("generate", t, ok))
            /\ IF ok
               THEN IF shape # "not_object"
                    THEN /\ analysis' = [target |-> t, notes_are_text |-> shape = "object"]
                         /\ events' = Append(events, TextEvent("analysed", t, FALSE))
                         /\ attempt' = n
                         /\ pc' = "deliver"
                         /\ UNCHANGED <<idx, delivered, failures>>
                    ELSE AnalysisFailed(t, AnalyseSnapshotError("content"))
               ELSE IF n >= StopAfterAttempt
                    THEN AnalysisFailed(t, AnalyseSnapshotError(RetryExhausted(Reraise)))
                    ELSE /\ attempt' = n
                         /\ UNCHANGED <<pc, idx, analysis, delivered, failures, events>>
    /\ UNCHANGED <<frame, input, output, targets, instances, playwright, browser, context, page, snapshots,
                   exitStatus>>

\* What the Telegram endpoint does with the one POST.
PostResponses == {"success", "non_success", "raise"}

\* post_to_telegram: "ok", or the error it raises (the POST itself raised, or
\* response.is_success is false).
PostToTelegramMutant(resp) == IF resp = "raise" THEN "transport" ELSE "ok"
PostToTelegram(resp) ==
    IF resp = "raise" THEN "transport"
    ELSE IF resp = "success" THEN "ok"
    ELSE "status"

\* format_message outside any try: format_slot joins the slot's pieces, and
\* str.join raises TypeError on notes that are not text.  The exception leaves
\* _run_async_impl.
FormatMessageRaises ==
    /\ pc = "deliver"
    /\ ~analysis.notes_are_text
    /\ pc' = "raised"
    /\ UNCHANGED <<frame, input, output, inflight, targets, idx, instances, playwright, browser, context, page,
                   snapshots, attempt, analysis, delivered, failures, events, calls,
                   exitStatus>>

\* format_message, post_to_telegram and the try/except around it.
Deliver ==
    /\ pc = "deliver"
    /\ CurrentCall \in inflight
    /\ inflight' = Complete(inflight, CurrentCall)
    /\ analysis.notes_are_text
    /\ \E resp \in PostResponses :
        LET t == analysis.target
            r == PostToTelegram(resp)
        IN  /\ calls' = Append(calls, Call("post", t, resp = "success"))
            /\ IF r = "ok"
               THEN NextRecord(Append(delivered, t), failures,
                               Append(events, TextEvent("sent", t, FALSE)))
               ELSE NextRecord(delivered,
                               Append(failures, [stage |-> "delivery", t |-> t, err |-> r]),
                               Append(events, TextEvent("send_failed", t, FALSE)))
    /\ UNCHANGED <<frame, input, output, targets, instances, playwright, browser, context, page, snapshots,
                   exitStatus>>

\* cli: asyncio.run(run(...)) returned, or raised and SystemExit(1) follows.
CliExit ==
    /\ pc \in {"returned", "raised"}
    /\ exitStatus' = IF pc = "raised" THEN 1 ELSE 0
    /\ pc' = "exited"
    /\ UNCHANGED <<frame, input, output, inflight, targets, idx, instances, playwright, browser, context, page,
                   snapshots, attempt, analysis, delivered, failures, events, calls>>

Next ==
    \/ RunnerSetup
    \/ NoTargets
    \/ Construct
    \/ StartPlaywright
    \/ LaunchBrowser
    \/ NewContext
    \/ NewPage
    \/ StartCall
    \/ Login
    \/ Fetch
    \/ CloseContext
    \/ CloseBrowser
    \/ StopPlaywright
    \/ Generate
    \/ FormatMessageRaises
    \/ Deliver
    \/ CliExit

Spec == Init /\ [][Next]_vars

----------------------------------------------------------------------------
\* Reading the record of calls

CallOps(ops) == { k \in DOMAIN calls : calls[k].op \in ops }

CallsFor(op, t) == { k \in DOMAIN calls : calls[k].op = op /\ calls[k].t = t }

\* The position of date t in the target list.
PosOf(t) == CHOOSE i \in DOMAIN targets : targets[i] = t

\* The calls that open, authenticate or release a session.
SessionOps ==
    {"start_playwright", "launch", "new_context", "new_page", "login",
     "close_context", "close_browser", "stop_playwright"}

ReleaseOps == {"close_context", "close_browser", "stop_playwright"}

LoginFailed == \E k \in CallOps({"login"}) : ~calls[k].ok

\* The final "Delivery summary" event has been yielded.
SummaryProduced == events # <<>> /\ events[Len(events)].kind = "summary"

Summary == events[Len(events)]

----------------------------------------------------------------------------
\* C1: When the fetch of target i raises, every target after i is still fetched,
\* by the same TeeSheetBrowser object, with no login, no release and no other
\* session call between the failed fetch and the later one.
C1_LaterTargetsFetchedInSameSession ==
    \A k \in CallOps({"fetch"}) :
        ~calls[k].ok =>
            \A j \in (PosOf(calls[k].t) + 1)..Len(targets) :
                \/ pc = "fetch" /\ idx <= j
                \/ \E m \in CallsFor("fetch", targets[j]) :
                    /\ m > k
                    /\ calls[m].inst = calls[k].inst
                    /\ \A x \in k..m : calls[x].op \notin SessionOps

\* C1 witness: the first target's fetch raised and the second target was then
\* fetched successfully.
C1_Witness ==
    /\ Len(targets) >= 2
    /\ \E k \in CallsFor("fetch", targets[1]) : ~calls[k].ok
    /\ \E m \in CallsFor("fetch", targets[2]) : calls[m].ok

\* C2: In the final report of a run, every target whose fetch raised has a failure
\* entry with stage "fetch", counted in the report's failed count.
C2_FetchFailureReported ==
    SummaryProduced =>
        \A k \in CallOps({"fetch"}) :
            ~calls[k].ok =>
                /\ \E n \in DOMAIN Summary.failureLines :
                    /\ Summary.failureLines[n].stage = "fetch"
                    /\ Summary.failureLines[n].t = calls[k].t
                /\ Summary.failed >= 1

\* C3: When the final report is produced, delivered count plus failed count equals
\* the number of targets, and no target is both delivered and failed.
C3_OneOutcomePerTarget ==
    SummaryProduced =>
        /\ Summary.succeeded + Summary.failed = Len(targets)
        /\ \A a \in DOMAIN Summary.deliveredDates, b \in DOMAIN Summary.failureLines :
            Summary.deliveredDates[a] # Summary.failureLines[b].t

\* C4: Once the login call has failed the run is over: the login is the last
\* external call, no fetch, generate or post call was made, nothing is recorded
\* for any target, and the generator has returned.
C4_LoginFailureEndsRun ==
    LoginFailed =>
        /\ calls[Len(calls)].op = "login"
        /\ CallOps({"fetch", "generate", "post"}) = {}
        /\ snapshots = <<>> /\ delivered = <<>> /\ failures = <<>>
        /\ \A e \in DOMAIN events : events[e].t = 0
        /\ pc \in {"returned", "exited"}

\* C4 witness: a run with two targets whose login left the page on the login
\* surface, and which has returned.
C4_Witness ==
    /\ Len(targets) >= 2
    /\ LoginFailed
    /\ pc = "exited"

\* C5: A run whose login failed ends with a non-zero exit status.
C5_LoginFailureExitsNonZero ==
    (pc = "exited" /\ LoginFailed) => exitStatus # 0

\* The session was entered: the login call returned with the page off the login
\* surface.
ReachedReady == \E k \in CallOps({"login"}) : calls[k].ok

\* The run is past the async with statement.
SessionLeft == pc \in {"analyse", "deliver", "returned", "exited"}

\* The release calls that returned, in the order they were made.
Released == SelectSeq(calls, LAMBDA c : c.op \in ReleaseOps /\ c.ok)

\* C6: In a run that reached Ready, once the async with is left the context, the
\* browser and the driver have each been released exactly once, in that order,
\* after the last fetch and before the first generate call.
C6_ReleasedOnceInOrder ==
    (ReachedReady /\ SessionLeft) =>
        /\ Len(Released) = 3
        /\ Released[1].op = "close_context"
        /\ Released[2].op = "close_browser"
        /\ Released[3].op = "stop_playwright"
        /\ context = "closed" /\ browser = "closed" /\ playwright = "stopped"
        /\ \A r \in CallOps(ReleaseOps) :
            /\ \A f \in CallOps({"fetch"}) : f < r
            /\ \A g \in CallOps({"generate", "post"}) : r < g

\* A call of __aenter__ raised.
EnterFailed ==
    \E k \in CallOps({"start_playwright", "launch", "new_context", "new_page", "login"}) :
        ~calls[k].ok

\* C7: When __aenter__ raised, no resource it had opened is still open when the
\* run ends.
C7_EnterFailureReleasesResources ==
    (EnterFailed /\ pc \in {"returned", "exited"}) =>
        /\ playwright # "running"
        /\ browser # "open"
        /\ context # "open"

\* C8: The constructor opens nothing; login is called at most once in a run; and
\* every fetch is made after the one login returned successfully and before any
\* release call.
C8_SessionStateMachine ==
    /\ pc = "aenter_playwright" =>
        /\ playwright = "None" /\ browser = "None"
        /\ context = "None" /\ page = "None"
        /\ CallOps(SessionOps) = {}
    /\ Cardinality(CallOps({"login"})) <= 1
    /\ instances <= 1
    /\ \A f \in CallOps({"fetch"}) :
        /\ \E l \in CallOps({"login"}) : l < f /\ calls[l].ok
        /\ \A r \in CallOps(ReleaseOps) : f < r
        /\ calls[f].inst = 1

\* C8 witness: targets were fetched, one of them unsuccessfully, and the session
\* has been closed since.
C8_Witness ==
    /\ \E f \in CallOps({"fetch"}) : ~calls[f].ok
    /\ \E f \in CallOps({"fetch"}) : calls[f].ok
    /\ Len(Released) = 3
    /\ pc = "analyse"

\* The generate calls made for target t, in order.
GenerateCalls(t) == SelectSeq(calls, LAMBDA c : c.op = "generate" /\ c.t = t)

\* Every generate attempt made for t raised, and the retry loop is over.
RetriesExhausted(t) ==
    /\ GenerateCalls(t) # <<>>
    /\ \A n \in DOMAIN GenerateCalls(t) : ~GenerateCalls(t)[n].ok
    /\ ~(pc = "analyse" /\ snapshots[idx].target = t)

\* C9: For each target at most 3 generate attempts are made; a successful attempt
\* is the last one; and when all attempts failed exactly 3 were made, the failure
\* is recorded and no post call is made for the target.
C9_AtMostThreeAttempts ==
    \A t \in Dates :
        LET g == GenerateCalls(t)
        IN  /\ Len(g) <= 3
            /\ \A n \in DOMAIN g : g[n].ok => n = Len(g)
            /\ RetriesExhausted(t) =>
                /\ Len(g) = 3
                /\ CallsFor("post", t) = {}
                /\ \E n \in DOMAIN failures :
                    failures[n].stage = "analysis" /\ failures[n].t = t

\* C9 witness: one target's analysis succeeded on its second attempt and was
\* posted, another target's three attempts all failed, and the run has returned.
C9_Witness ==
    /\ pc = "returned"
    /\ \E t \in Dates : RetriesExhausted(t) /\ Len(GenerateCalls(t)) = 3
    /\ \E t \in Dates :
        /\ Len(GenerateCalls(t)) = 2
        /\ GenerateCalls(t)[2].ok
        /\ CallsFor("post", t) # {}

\* C10: When every attempt of the generate call failed, the error recorded for the
\* target is the wrapped "Failed communicating with Ollama after retries" error,
\* and the final report holds exactly one failure entry for the target.
C10_ExhaustionRaisesWrappedError ==
    \A t \in Dates :
        RetriesExhausted(t) =>
            /\ \A n \in DOMAIN failures :
                failures[n].t = t => failures[n].err = "wrapped"
            /\ SummaryProduced =>
                Cardinality({ n \in DOMAIN Summary.failureLines :
                                Summary.failureLines[n].t = t }) = 1

----------------------------------------------------------------------------
\* The elements of a sequence.
Range(s) == { s[i] : i \in DOMAIN s }

\* The targets of the captured snapshots, in acquisition order.
SnapshotTargets == [i \in DOMAIN snapshots |-> snapshots[i].target]

C16_NoRetryOutsideAnalysis ==
    \A t \in Dates :
        /\ Cardinality(CallsFor("fetch", t)) <= 1
        /\ Cardinality(CallsFor("post", t)) <= 1
        /\ (\E g \in CallsFor("generate", t) : calls[g].ok)
            => \/ Cardinality(CallsFor("post", t)) = 1
               \/ pc = "deliver" /\ analysis.target = t
               \/ \E n \in DOMAIN failures :
                    failures[n].t = t /\ failures[n].err = "content"
        /\ CallsFor("post", t) # {} => \E g \in CallsFor("generate", t) : calls[g].ok

----------------------------------------------------------------------------
\* The events that record a target's Outcome.
OutcomeKinds == {"sent", "send_failed", "analysis_failed"}

\* The targets of the report's entries in the order the report lists them: the
\* "Delivered dates" line, then the "Failures" lines.
ReportOrder ==
    Summary.deliveredDates
        \o [n \in DOMAIN Summary.failureLines |-> Summary.failureLines[n].t]

\* s lists distinct targets in the order of target selection.
InSelectionOrder(s) ==
    \A i, j \in DOMAIN s : i < j => PosOf(s[i]) < PosOf(s[j])

\* C17 as stated: Outcomes are recorded in the order of target selection and
\* the final report lists them in that order.
C17_ReportedInSelectionOrder ==
    /\ InSelectionOrder(delivered)
    /\ InSelectionOrder([n \in DOMAIN failures |-> failures[n].t])
    /\ SummaryProduced => InSelectionOrder(ReportOrder)

\* C17 amended: Outcomes are recorded in the order of target selection (the
\* Outcome events, the delivered list and the failures list all follow it).  The
\* final report keeps that order for its failure lines and lists the delivered
\* dates in ascending date order, ahead of the failure lines.
C17_RecordedInOrderReportGrouped ==
    /\ InSelectionOrder(delivered)
    /\ InSelectionOrder([n \in DOMAIN failures |-> failures[n].t])
    /\ InSelectionOrder(
        [n \in DOMAIN SelectSeq(events, LAMBDA e : e.kind \in OutcomeKinds)
            |-> SelectSeq(events, LAMBDA e : e.kind \in OutcomeKinds)[n].t])
    /\ SummaryProduced =>
        /\ Summary.failureLines = failures
        /\ Len(Summary.deliveredDates) = Len(delivered)
        /\ Range(Summary.deliveredDates) = Range(delivered)
        /\ \A i, j \in DOMAIN Summary.deliveredDates :
            i < j => Summary.deliveredDates[i] < Summary.deliveredDates[j]

\* C17 witness: the later date was selected first, both targets were delivered,
\* and the report lists the earlier date first.
C17_Witness ==
    /\ SummaryProduced
    /\ targets = <<2, 1>>
    /\ delivered = <<2, 1>>
    /\ Summary.deliveredDates = <<1, 2>>

\* C18: With an empty target list no TeeSheetBrowser is constructed and no
\* session, fetch, generate or post call is made; the generator yields the one
\* final "nothing to do" event and returns, and cli exits with status 0.
C18_NoTargetsNoWork ==
    targets = <<>> =>
        /\ instances = 0
        /\ CallOps(SessionOps \cup {"fetch", "generate", "post"}) = {}
        /\ playwright = "None" /\ browser = "None" /\ context = "None" /\ page = "None"
        /\ pc \in {"cli", "start", "raised", "returned", "exited"}
        /\ pc = "returned" => events = <<TextEvent("no_targets", 0, TRUE)>>
        /\ (pc = "exited" /\ calls[1].ok) =>
            /\ events = <<TextEvent("no_targets", 0, TRUE)>>
            /\ exitStatus = 0

\* C18 witness: a run with no targets has ended after its one event.
C18_Witness ==
    /\ targets = <<>>
    /\ pc = "exited"
    /\ events # <<>>

\* C19 as stated: when the session was opened and no snapshot was acquired, the
\* run ends with the "nothing captured" final event and no generate or post call
\* is made.
C19_NothingCapturedEvent ==
    (ReachedReady /\ snapshots = <<>> /\ SessionLeft) =>
        /\ pc \in {"returned", "exited"}
        /\ events[Len(events)] = TextEvent("nothing_captured", 0, TRUE)
        /\ CallOps({"generate", "post"}) = {}

\* C19 amended: when the session was opened and no snapshot was acquired, no
\* generate or post call is made and the run ends after the session; its final
\* event is "nothing captured" when every release call of __aexit__ returned, and
\* "Playwright session failed" when one of them raised.
C19_NothingCapturedUnlessReleaseFails ==
    (ReachedReady /\ snapshots = <<>> /\ SessionLeft) =>
        /\ pc \in {"returned", "exited"}
        /\ CallOps({"generate", "post"}) = {}
        /\ \A e \in 1..(Len(events) - 1) : ~events[e].final
        /\ IF \A r \in CallOps(ReleaseOps) : calls[r].ok
           THEN events[Len(events)] = TextEvent("nothing_captured", 0, TRUE)
           ELSE events[Len(events)] = TextEvent("session_failed", 0, TRUE)

\* C19 witness: both targets' fetches raised, the session was released, and the
\* run ended with the "nothing captured" event.
C19_Witness ==
    /\ ReachedReady
    /\ Len(targets) = 2
    /\ snapshots = <<>>
    /\ Len(Released) = 3
    /\ pc = "returned"
    /\ events[Len(events)].kind = "nothing_captured"

----------------------------------------------------------------------------
(***************************************************************************)
(* The pure functions of the agent, each applied once to arguments drawn    *)
(* from a bounded set: pc = "call" before the call and "done" after it.     *)
(***************************************************************************)

\* The variables of a run, which a function call does not touch.
runVars == <<targets, idx, instances, playwright, browser, context, page, snapshots,
             attempt, analysis, delivered, failures, events, calls, exitStatus, inflight,
             frame>>

\* No run is in progress.
NoRun ==
    /\ inflight = {}
    /\ frame = NoValue
    /\ targets = <<>>
    /\ idx = 0
    /\ instances = 0
    /\ playwright = "None"
    /\ browser = "None"
    /\ context = "None"
    /\ page = "None"
    /\ snapshots = <<>>
    /\ attempt = 0
    /\ analysis = "None"
    /\ delivered = <<>>
    /\ failures = <<>>
    /\ events = <<>>
    /\ calls = <<>>
    /\ exitStatus = -1

Returned(v) == [type |-> "return", value |-> v]

Raised(exc) == [type |-> "raise", exc |-> exc]

----------------------------------------------------------------------------
\* Dates are proleptic Gregorian ordinals (date.toordinal): day 1 is Monday
\* 0001-01-01.  The largest "today" and the largest lookahead tried:
MaxToday == 14
MaxLookahead == 11

\* compute_target_dates: lookahead_days: int = 10
DefaultLookaheadDays == 10

\* date.weekday(): Monday is 0, Sunday is 6.
Weekday(ordinal) == (ordinal + 6) % 7

\* WEEKEND_INDICES = {4, 5, 6}
WEEKEND_INDICES_Mutant == {5, 6}
WEEKEND_INDICES == {4, 5, 6}

\* TargetDate.is_weekend
IsWeekend(value) == Weekday(value) \in WEEKEND_INDICES

\* compute_target_dates(today, lookahead_days=...)
ComputeTargetDates(today, lookahead_days) ==
    LET target_value == today + lookahead_days
    IN  IF IsWeekend(target_value) THEN <<target_value>> ELSE <<>>

\* A --force-date text, as the numbers and the separators a reader finds in it:
\* "0001-02-03" is [fields |-> <<1, 2, 3>>, seps |-> <<"-", "-">>] and "" has
\* neither.  NoForceDate is the absent option (None).
NoForceDate == [type |-> "None"]

Text(fields, seps) == [type |-> "str", fields |-> fields, seps |-> seps]

\* bool(force_date): None and the empty string are false.
Truthy(force_date) ==
    /\ force_date.type = "str"
    /\ force_date.fields # <<>> \/ force_date.seps # <<>>

\* Days of each month of year 1 (not a leap year).
DaysInMonth == <<31, 28, 31, 30, 31, 30, 31, 31, 30, 31, 30, 31>>

RECURSIVE DaysBeforeMonth(_)
DaysBeforeMonth(m) == IF m <= 1 THEN 0 ELSE DaysInMonth[m - 1] + DaysBeforeMonth(m - 1)

\* date.fromisoformat on a text of year 1: the ordinal of YYYY-MM-DD, or
\* "ValueError" for anything else.
FromIsoFormat(text) ==
    IF /\ Len(text.fields) = 3
       /\ text.seps = <<"-", "-">>
       /\ text.fields[1] = 1
       /\ text.fields[2] \in 1..12
       /\ text.fields[3] >= 1
       /\ text.fields[3] <= DaysInMonth[text.fields[2]]
    THEN Returned(DaysBeforeMonth(text.fields[2]) + text.fields[3])
    ELSE Raised("ValueError")

\* resolve_targets(force_date), with date.today() = today.
ResolveTargets(force_date, today) ==
    IF Truthy(force_date)
    THEN IF FromIsoFormat(force_date).type = "raise"
         THEN Raised("SystemExit")
         ELSE Returned(<<FromIsoFormat(force_date).value>>)
    ELSE Returned(ComputeTargetDates(today, DefaultLookaheadDays))

\* The --force-date values tried: absent, empty, well-formed dates (valid and
\* not), and texts of another shape.
ForceDates ==
    {NoForceDate, Text(<<>>, <<>>), Text(<<>>, <<"x">>), Text(<<1>>, <<>>),
     Text(<<1, 1>>, <<"-">>)}
    \cup { Text(<<1, m, d>>, seps) :
            m \in {0, 1, 2, 12, 13}, d \in {0, 1, 2, 28, 29, 31, 32},
            seps \in {<<"-", "-">>, <<"/", "/">>} }

InitDates ==
    /\ pc = "call"
    /\ NoRun
    /\ output = NoValue
    /\ \/ \E today \in 1..MaxToday, lookahead_days \in 0..MaxLookahead :
            input = [fn |-> "compute_target_dates", today |-> today,
                     lookahead_days |-> lookahead_days, force_date |-> NoForceDate]
       \/ \E today \in 1..MaxToday, force_date \in ForceDates :
            input = [fn |-> "resolve_targets", today |-> today,
                     lookahead_days |-> DefaultLookaheadDays, force_date |-> force_date]

CallComputeTargetDates ==
    /\ pc = "call"
    /\ input.fn = "compute_target_dates"
    /\ output' = Returned(ComputeTargetDates(input.today, input.lookahead_days))
    /\ pc' = "done"
    /\ UNCHANGED <<input, runVars>>

CallResolveTargets ==
    /\ pc = "call"
    /\ input.fn = "resolve_targets"
    /\ output' = ResolveTargets(input.force_date, input.today)
    /\ pc' = "done"
    /\ UNCHANGED <<input, runVars>>

NextDates ==
    \/ CallComputeTargetDates
    \/ CallResolveTargets

SpecDates == InitDates /\ [][NextDates]_vars

\* C13: compute_target_dates returns the one date today + lookahead when that
\* date is a Friday, Saturday or Sunday, and the empty list otherwise.
C13_ExactlyTheWeekendDate ==
    (pc = "done" /\ input.fn = "compute_target_dates") =>
        LET d == input.today + input.lookahead_days
        IN  /\ output.type = "return"
            /\ IF d % 7 \in {5, 6, 0}
               THEN output.value = <<d>>
               ELSE output.value = <<>>

\* C13 witness: from Monday 0001-01-01 a lookahead of 11 days lands on a Friday,
\* and the call has returned that one date.
C13_Witness ==
    /\ pc = "done"
    /\ input.fn = "compute_target_dates"
    /\ input.today = 1
    /\ input.lookahead_days = 11
    /\ output.value = <<12>>

\* C14: A supplied --force-date that parses yields exactly that date, whatever
\* its weekday; a supplied one that does not parse ends in SystemExit, never in
\* the automatic window or an empty list.
C14_OverrideParsesOrFails ==
    (pc = "done" /\ input.fn = "resolve_targets" /\ input.force_date.type = "str") =>
        IF FromIsoFormat(input.force_date).type = "return"
        THEN output = Returned(<<FromIsoFormat(input.force_date).value>>)
        ELSE output = Raised("SystemExit")

----------------------------------------------------------------------------
\* _run_async_impl was started (the runner was set up) and has ended, by
\* returning or by an exception.
ImplEnded ==
    /\ pc \in {"returned", "raised", "exited"}
    /\ \E k \in CallOps({"create_session"}) : calls[k].ok

FinalEvents == {n \in DOMAIN events : events[n].final}

\* C26: when _run_async_impl has ended it has emitted exactly one final event,
\* and that event is its last one.
C26_OneFinalEventLast ==
    ImplEnded => FinalEvents = {Len(events)} /\ events # <<>>

\* The release calls of __aexit__ that raised.
ReleaseFailures == {r \in CallOps(ReleaseOps) : ~calls[r].ok}

\* C27: when a release call of __aexit__ raised, every target had been
\* attempted, that call is the last call of the run, the run has ended with the
\* final "Playwright session failed" event as its only final event, no
\* generate or post call was made for the snapshots captured, and the
\* resources released after the failing one are left unreleased.
C27_ReleaseFailureIsSessionFailure ==
    \A r \in ReleaseFailures :
        /\ r = Len(calls)
        /\ \A i \in DOMAIN targets : CallsFor("fetch", targets[i]) # {}
        /\ pc \in {"returned", "exited"}
        /\ exitStatus \in {-1, 0}
        /\ events[Len(events)] = TextEvent("session_failed", 0, TRUE)
        /\ \A e \in 1..(Len(events) - 1) : ~events[e].final
        /\ CallOps({"generate", "post"}) = {}
        /\ delivered = <<>> /\ failures = <<>>
        /\ calls[r].op = "close_context" =>
                context # "closed" /\ browser # "closed" /\ playwright # "stopped"
        /\ calls[r].op = "close_browser" =>
                browser # "closed" /\ playwright # "stopped"
        /\ calls[r].op = "stop_playwright" => playwright # "stopped"

\* C27 witness: a snapshot was captured, the context was closed, the close of
\* the browser raised and the run has returned.
C27_Witness ==
    /\ pc = "returned"
    /\ snapshots # <<>>
    /\ context = "closed"
    /\ \E r \in ReleaseFailures : calls[r].op = "close_browser"

----------------------------------------------------------------------------
\* The operations that go over the network, and the ones that use the page.
NetworkOps == {"login", "fetch", "generate", "post"}

PageOps == {"login", "fetch", "close_context"}

\* C23: at most one call of a run is in flight at any time, it is the call the
\* run is positioned at, and every call made before it has already returned
\* or raised; so no two network operations overlap and the page has at most
\* one user.
C23_OneCallInFlight ==
    /\ Cardinality(inflight) <= 1
    /\ Cardinality({c \in inflight : c.op \in NetworkOps}) <= 1
    /\ Cardinality({c \in inflight : c.op \in PageOps}) <= 1
    /\ \A c \in inflight : c = CurrentCall /\ c.n = Len(calls) + 1

\* C23 witness: a delivery call is in flight after the login, a fetch and a
\* generate call of the same run have completed.
C23_Witness ==
    /\ \E c \in inflight : c.op = "post"
    /\ CallOps({"login"}) # {}
    /\ CallOps({"fetch"}) # {}
    /\ CallOps({"generate"}) # {}

----------------------------------------------------------------------------
(***************************************************************************)
(* OllamaClient.analyse_snapshot after _invoke_generate returned: the        *)
(* response text is parsed and turned into a TeeSheetAnalysis.               *)
(***************************************************************************)

\* Decoded JSON values.  A string is a sequence of characters.
JNull == [type |-> "null"]
JBool(b) == [type |-> "bool", b |-> b]
JNum(n) == [type |-> "num", n |-> n]
JStr(s) == [type |-> "str", s |-> s]
JList(items) == [type |-> "list", items |-> items]
JObj(fields) == [type |-> "obj", fields |-> fields]

\* Whitespace characters.
WS == {" ", "\n"}

\* str.strip()
RECURSIVE LStrip(_)
LStrip(s) == IF s # <<>> /\ Head(s) \in WS THEN LStrip(Tail(s)) ELSE s

RECURSIVE RStrip(_)
RStrip(s) ==
    IF s # <<>> /\ s[Len(s)] \in WS THEN RStrip(SubSeq(s, 1, Len(s) - 1)) ELSE s

Strip(s) == RStrip(LStrip(s))

\* str(n) for n >= 0
Digits == <<"0", "1", "2", "3", "4", "5", "6", "7", "8", "9">>

RECURSIVE Decimal(_)
Decimal(n) ==
    IF n < 10 THEN <<Digits[n + 1]>> ELSE Decimal(n \div 10) \o <<Digits[(n % 10) + 1]>>

\* str(v) of a scalar
PyStr(v) ==
    CASE v.type = "str" -> v.s
      [] v.type = "num" -> Decimal(v.n)
      [] v.type = "bool" -> IF v.b THEN <<"T", "r", "u", "e">> ELSE <<"F", "a", "l", "s", "e">>
      [] v.type = "null" -> <<"N", "o", "n", "e">>

\* bool(v)
PyBool(v) ==
    CASE v.type = "null" -> FALSE
      [] v.type = "bool" -> v.b
      [] v.type = "num" -> v.n # 0
      [] v.type = "str" -> v.s # <<>>
      [] v.type = "list" -> v.items # <<>>
      [] v.type = "obj" -> DOMAIN v.fields # {}

\* dict.get(key, default)
Get(obj, key, default) ==
    IF key \in DOMAIN obj.fields THEN obj.fields[key] ELSE default

\* The response text: a sequence of pieces, each whitespace, a code fence, the
\* word json, other text, or a complete JSON document (with its decoded value).
Piece(k, v) == [k |-> k, v |-> v]
Blank == Piece(" ", JNull)
Fence == Piece("fence", JNull)
JsonTag == Piece("json", JNull)
Junk == Piece("x", JNull)
Doc(v) == Piece("doc", v)

RECURSIVE LStripPieces(_)
LStripPieces(t) ==
    IF t # <<>> /\ Head(t) = Blank THEN LStripPieces(Tail(t)) ELSE t

RECURSIVE RStripPieces(_)
RStripPieces(t) ==
    IF t # <<>> /\ t[Len(t)] = Blank
    THEN RStripPieces(SubSeq(t, 1, Len(t) - 1))
    ELSE t

StripPieces(t) == RStripPieces(LStripPieces(t))

\* candidate.split(fence)
RECURSIVE SplitFence(_)
SplitFence(t) ==
    IF \A i \in DOMAIN t : t[i] # Fence
    THEN <<t>>
    ELSE LET i == CHOOSE k \in DOMAIN t :
                    t[k] = Fence /\ \A j \in 1..(k - 1) : t[j] # Fence
         IN  <<SubSeq(t, 1, i - 1)>> \o SplitFence(SubSeq(t, i + 1, Len(t)))

\* json.loads(candidate): the value of the one document, or "JSONDecodeError".
JsonLoads(t) ==
    IF Len(StripPieces(t)) = 1 /\ StripPieces(t)[1].k = "doc"
    THEN Returned(StripPieces(t)[1].v)
    ELSE Raised("JSONDecodeError")

\* OllamaClient._parse_response
ParseResponse(raw_text) ==
    LET c1 == StripPieces(raw_text)
        parts == SplitFence(c1)
        c2 == IF \E i \in DOMAIN c1 : c1[i] = Fence
              THEN (IF Len(parts) >= 3 THEN parts[2] ELSE parts[Len(parts)])
              ELSE c1
        c3 == StripPieces(c2)
        c4 == IF c3 # <<>> /\ Head(c3) = JsonTag THEN StripPieces(Tail(c3)) ELSE c3
    IN  IF c1 = <<>> THEN JObj(<<>>)
        ELSE IF JsonLoads(c4).type = "return" THEN JsonLoads(c4).value
        ELSE JObj(<<>>)

\* What "for x in v" yields: the items of a list, the characters of a string,
\* the keys of a dict (at most one key in the inputs, so no order is chosen);
\* any other value is not iterable.
Iterate(v) ==
    CASE v.type = "list" -> Returned(v.items)
      [] v.type = "str" -> Returned([i \in 1..Len(v.s) |-> JStr(<<v.s[i]>>)])
      [] v.type = "obj" ->
            Returned(IF DOMAIN v.fields = {}
                     THEN <<>>
                     ELSE <<JStr(<<CHOOSE k \in DOMAIN v.fields : TRUE>>)>>)
      [] OTHER -> Raised("TypeError")

\* int(text) of a string of decimal digits
RECURSIVE DigitsValue(_)
DigitsValue(s) ==
    IF s = <<>>
    THEN 0
    ELSE 10 * DigitsValue(SubSeq(s, 1, Len(s) - 1))
         + ((CHOOSE d \in DOMAIN Digits : Digits[d] = s[Len(s)]) - 1)

IsDigits(s) ==
    s # <<>> /\ \A i \in DOMAIN s : \E d \in DOMAIN Digits : Digits[d] = s[i]

\* OllamaClient._coerce_int
CoerceInt(value) ==
    CASE value.type = "null" -> JNull
      [] value.type = "str" ->
            IF IsDigits(Strip(value.s)) THEN JNum(DigitsValue(Strip(value.s))) ELSE JNull
      [] value.type = "num" -> value
      [] value.type = "bool" -> JNum(IF value.b THEN 1 ELSE 0)
      [] OTHER -> JNull

\* The TeeTimeSlot built from one item of the comprehension.
TeeTimeSlot(item) ==
    [time |-> Strip(PyStr(Get(item, "time", JStr(<<>>)))),
     status |-> Strip(PyStr(Get(item, "status", JStr(<<>>)))),
     available_slots |-> CoerceInt(Get(item, "available_slots", JNull)),
     is_bookable |-> PyBool(Get(item, "is_bookable", JBool(FALSE))),
     notes |-> IF PyBool(Get(item, "notes", JNull))
               THEN Get(item, "notes", JNull)
               ELSE JNull]

\* The comprehension's filter: if item.get("time")
KeepItem(item) == PyBool(Get(item, "time", JNull))

\* tee_times = [TeeTimeSlot(...) for item in parsed.get("tee_times", []) if ...]
TeeTimes(parsed) ==
    LET it == Iterate(Get(parsed, "tee_times", JList(<<>>)))
        kept == SelectSeq(it.value, KeepItem)
    IN  IF it.type = "raise" THEN it
        ELSE IF \E i \in DOMAIN it.value : it.value[i].type # "obj"
        THEN Raised("AttributeError")
        ELSE Returned([i \in 1..Len(kept) |-> TeeTimeSlot(kept[i])])

KeepWarning(message) == Strip(PyStr(message)) # <<>>

\* warnings = [str(message).strip() for message in ... if str(message).strip()]
Warnings(parsed) ==
    LET it == Iterate(Get(parsed, "warnings", JList(<<>>)))
        kept == SelectSeq(it.value, KeepWarning)
    IN  IF it.type = "raise" THEN it
        ELSE Returned([i \in 1..Len(kept) |-> Strip(PyStr(kept[i]))])

IsBookableMutant(slot) == TRUE
IsBookable(slot) == slot.is_bookable

\* OllamaClient._fallback_summary
FallbackSummary(tee_times, warnings, snapshot) ==
    IF tee_times = <<>>
    THEN IF warnings # <<>>
         THEN <<"No tee times parsed for", " ", snapshot.day_name, " ",
                snapshot.date_iso, "; warnings:", " ">> \o warnings[1]
         ELSE <<"No tee times parsed for", " ", snapshot.day_name, " ",
                snapshot.date_iso, ".">>
    ELSE IF SelectSeq(tee_times, IsBookable) # <<>>
         THEN Decimal(Len(SelectSeq(tee_times, IsBookable)))
              \o <<" ", "bookable tee time(s) found for", " ", snapshot.day_name,
                   " ", snapshot.date_iso, ".">>
         ELSE <<"Tee sheet analysed for", " ", snapshot.day_name, " ",
                snapshot.date_iso, "; no bookable slots identified.">>

\* A summary that passes as it is: summary.strip() is not empty.
NotBlankMutant(summary) == TRUE

NotBlank(summary) == Strip(summary.s) # <<>>

\* if not isinstance(summary, str) or not summary.strip()
NeedsFallback(summary) == summary.type # "str" \/ ~NotBlank(summary)

\* OllamaClient.analyse_snapshot from the response text on.
AnalyseSnapshot(raw_text, snapshot) ==
    LET parsed == ParseResponse(StripPieces(raw_text))
        tee_times == TeeTimes(parsed)
        warnings == Warnings(parsed)
        summary == Get(parsed, "summary", JNull)
    IN  IF parsed.type # "obj" THEN Raised("AttributeError")
        ELSE IF tee_times.type = "raise" THEN tee_times
        ELSE IF warnings.type = "raise" THEN warnings
        ELSE Returned(
               [date_iso |-> snapshot.date_iso,
                day_name |-> snapshot.day_name,
                summary |-> Strip(IF NeedsFallback(summary)
                                  THEN FallbackSummary(tee_times.value,
                                                       warnings.value, snapshot)
                                  ELSE summary.s),
                tee_times |-> tee_times.value,
                warnings |-> warnings.value,
                source_url |-> snapshot.url,
                model_used |-> "ollama:model"])

\* The longest tee_times list the model's answer carries.
MaxItems == 2

\* The object with the given <<key, value>> pairs.
Fields(pairs) ==
    [k \in {p[1] : p \in pairs} |-> (CHOOSE p \in pairs : p[1] = k)[2]]

TimeFields ==
    {{}, {<<"time", JNull>>}, {<<"time", JStr(<<" ">>)>>},
     {<<"time", JStr(<<" ", "9">>)>>}, {<<"time", JNum(0)>>}}

BookableFields ==
    {{}, {<<"is_bookable", JBool(TRUE)>>}}

\* Items of a tee_times list: objects with and without a time, a fully
\* populated one, and values that are not objects.
Items ==
    {JObj(Fields(t \cup b)) : t \in TimeFields, b \in BookableFields}
    \cup {JObj(Fields({<<"time", JStr(<<"9">>)>>, <<"status", JStr(<<" ", "o">>)>>,
                       <<"available_slots", JStr(<<"1", "2">>)>>,
                       <<"is_bookable", JNum(1)>>, <<"notes", JStr(<<>>)>>})),
          JObj(Fields({<<"time", JStr(<<"9">>)>>,
                       <<"status", JStr(<<"B", "o", "o", "k">>)>>,
                       <<"available_slots", JNum(1)>>,
                       <<"is_bookable", JBool(TRUE)>>, <<"notes", JStr(<<"n">>)>>})),
          JObj(Fields({<<"time", JStr(<<"9">>)>>, <<"notes", JNum(5)>>})),
          JStr(<<"a">>)}

ItemLists == UNION {[1..n -> Items] : n \in 0..MaxItems}

TeeTimesFields ==
    {{}} \cup {{<<"tee_times", v>>} :
                 v \in {JNull, JStr(<<>>), JObj(<<>>), JNum(3)}
                       \cup {JList(l) : l \in ItemLists}}

WarningsFields ==
    {{}} \cup {{<<"warnings", v>>} :
                 v \in {JNull, JList(<<>>), JList(<<JStr(<<" ">>)>>),
                        JList(<<JStr(<<" ">>), JStr(<<"w", " ">>), JNum(1)>>),
                        JStr(<<"a", " ">>)}}

SummaryFields ==
    {{}} \cup {{<<"summary", v>>} :
                 v \in {JNull, JNum(7), JStr(<<>>), JStr(<<" ", "\n">>),
                        JStr(<<" ", "s", " ">>),
                        JStr(<<"x", "\n", "y", " ", "(", "z", ")">>)}}

\* Documents the response text can decode to.
Objects ==
    {JObj(Fields(t \cup w \cup m)) :
        t \in TeeTimesFields, w \in WarningsFields, m \in SummaryFields}

NotObjects == {JNull, JNum(42), JStr(<<"a">>), JList(<<>>), JList(<<JNum(1)>>)}

\* Response texts: a bare document, and the ways a document comes wrapped.
Wrapped(d) ==
    {<<Blank, Doc(d), Blank>>,
     <<Fence, JsonTag, Blank, Doc(d), Blank, Fence>>,
     <<Junk, Blank, Fence, Doc(d), Fence, Blank, Junk>>,
     <<Fence, Doc(d)>>,
     <<Doc(d), Fence>>,
     <<JsonTag, Doc(d)>>,
     <<Junk, Doc(d)>>,
     <<Doc(d), Doc(d)>>}

RawTexts ==
    {<<Doc(d)>> : d \in Objects \cup NotObjects}
    \cup UNION {Wrapped(d) : d \in NotObjects \cup {JObj(<<>>)}}
    \cup {<<>>, <<Blank>>, <<Junk>>, <<Fence, Fence>>, <<JsonTag>>}

Snapshots ==
    {[date_iso |-> "2026-11-06", day_name |-> "Friday", url |-> "url"],
     [date_iso |-> "2026-11-07", day_name |-> "Saturday", url |-> "url"]}

InitAnalyse ==
    /\ pc = "call"
    /\ NoRun
    /\ output = NoValue
    /\ \E raw_text \in RawTexts, snapshot \in Snapshots :
            input = [fn |-> "analyse_snapshot", raw_text |-> raw_text,
                     snapshot |-> snapshot]

CallAnalyseSnapshot ==
    /\ pc = "call"
    /\ input.fn = "analyse_snapshot"
    /\ output' = AnalyseSnapshot(input.raw_text, input.snapshot)
    /\ pc' = "done"
    /\ UNCHANGED <<input, runVars>>

NextAnalyse == CallAnalyseSnapshot

SpecAnalyse == InitAnalyse /\ [][NextAnalyse]_vars

\* C11: whatever the response text is, analyse_snapshot returns an Analysis
\* and does not raise.
C11_NoRaiseOnContent ==
    (pc = "done" /\ input.fn = "analyse_snapshot") => output.type = "return"

\* C12: every Analysis analyse_snapshot returns has a summary that is not
\* empty and carries no surrounding whitespace.
C12_SummaryNeverEmpty ==
    (pc = "done" /\ input.fn = "analyse_snapshot" /\ output.type = "return") =>
        /\ output.value.summary # <<>>
        /\ Strip(output.value.summary) = output.value.summary

\* C12 witness: the model answered with a summary of whitespace only and no
\* tee times; the returned Analysis carries the fallback text.
C12_Witness ==
    /\ pc = "done"
    /\ input.fn = "analyse_snapshot"
    /\ input.raw_text = <<Doc(JObj(Fields({<<"summary", JStr(<<" ", "\n">>)>>})))>>
    /\ output.type = "return"
    /\ output.value.summary =
          <<"No tee times parsed for", " ", "Friday", " ", "2026-11-06", ".">>

\* C24: when the model's summary is missing, not text or blank, the returned
\* summary is the "no tee times parsed" text, with the first warning when
\* there is one, if no slot was parsed; else the text with the number of
\* bookable slots if there is one; else the "no bookable slots" text.
C24_FallbackCaseSplit ==
    (/\ pc = "done"
     /\ input.fn = "analyse_snapshot"
     /\ output.type = "return"
     /\ NeedsFallback(Get(ParseResponse(input.raw_text), "summary", JNull)))
        => LET a == output.value
               day == input.snapshot.day_name
               date == input.snapshot.date_iso
               n == Cardinality({i \in DOMAIN a.tee_times : a.tee_times[i].is_bookable})
           IN  a.summary =
                 IF a.tee_times = <<>>
                 THEN IF a.warnings = <<>>
                      THEN <<"No tee times parsed for", " ", day, " ", date, ".">>
                      ELSE <<"No tee times parsed for", " ", day, " ", date,
                             "; warnings:", " ">> \o a.warnings[1]
                 ELSE IF n >= 1
                      THEN Decimal(n) \o <<" ", "bookable tee time(s) found for", " ",
                                           day, " ", date, ".">>
                      ELSE <<"Tee sheet analysed for", " ", day, " ", date,
                             "; no bookable slots identified.">>

\* C24 witness: the summary is missing, two slots were parsed and exactly one of
\* them is bookable; the summary reports one bookable tee time.
C24_Witness ==
    /\ pc = "done"
    /\ input.fn = "analyse_snapshot"
    /\ output.type = "return"
    /\ "summary" \notin DOMAIN ParseResponse(input.raw_text).fields
    /\ Len(output.value.tee_times) = 2
    /\ output.value.tee_times[1].is_bookable
    /\ ~output.value.tee_times[2].is_bookable
    /\ output.value.summary[1] = "1"
    /\ output.value.summary[3] = "bookable tee time(s) found for"

\* C25: every slot of a returned Analysis has a time that is not empty.
C25_EverySlotHasTime ==
    (pc = "done" /\ input.fn = "analyse_snapshot" /\ output.type = "return") =>
        \A i \in DOMAIN output.value.tee_times : output.value.tee_times[i].time # <<>>

----------------------------------------------------------------------------
(***************************************************************************)
(* telegram.format_message and the header line of the message it builds.    *)
(***************************************************************************)

\* sep.join(parts)
RECURSIVE Join(_, _)
Join(parts, sep) ==
    IF parts = <<>> THEN <<>>
    ELSE IF Len(parts) = 1 THEN parts[1]
    ELSE parts[1] \o sep \o Join(Tail(parts), sep)

\* str.lower() on the letters the statuses are written with.
Lower(s) == [i \in DOMAIN s |-> IF s[i] = "B" THEN "b" ELSE s[i]]

\* "book" in text
HasBook(text) ==
    \E i \in 1..(Len(text) - 3) : SubSeq(text, i, i + 3) = <<"b", "o", "o", "k">>

\* telegram.format_slot: the joined pieces, or the TypeError str.join raises on
\* a piece that is not text.
FormatSlot(slot) ==
    LET pieces ==
            <<slot.time, slot.status>>
            \o (IF slot.available_slots # JNull
                THEN <<Decimal(slot.available_slots.n)
                       \o <<" ", IF slot.available_slots.n = 1 THEN "slot" ELSE "slots">> >>
                ELSE <<>>)
            \o (IF slot.notes # JNull THEN <<slot.notes.s>> ELSE <<>>)
            \o (IF slot.is_bookable /\ ~HasBook(Lower(slot.status))
                THEN << <<"Bookable">> >>
                ELSE <<>>)
    IN  IF slot.notes # JNull /\ slot.notes.type # "str"
        THEN Raised("TypeError")
        ELSE Returned(Join(pieces, <<" ", "-", " ">>))

\* telegram.format_message
FormatMessage(a) ==
    LET lines ==
            << <<a.day_name, " ", "(", a.date_iso, ")">>, a.summary, <<>> >>
            \o (IF a.tee_times # <<>>
                THEN << <<"Tee times:">> >>
                     \o [i \in DOMAIN a.tee_times |->
                            <<"-", " ">> \o FormatSlot(a.tee_times[i]).value]
                ELSE << <<"No tee times parsed.">> >>)
            \o (IF a.warnings # <<>>
                THEN << <<>>, <<"Warnings:">> >>
                     \o [i \in DOMAIN a.warnings |-> <<"-", " ">> \o a.warnings[i]]
                ELSE <<>>)
            \o << <<>>, <<"Source:", " ", a.source_url>>,
                  <<"(Model:", " ", a.model_used, ")">> >>
    IN  IF \E i \in DOMAIN a.tee_times : FormatSlot(a.tee_times[i]).type = "raise"
        THEN Raised("TypeError")
        ELSE Returned(Strip(Join(lines, <<"\n">>)))

\* The header line of a message, the text before the first line break, read
\* as "day_name (date_iso)".
HeaderLine(message) ==
    IF \E i \in DOMAIN message : message[i] = "\n"
    THEN SubSeq(message, 1,
                (CHOOSE i \in DOMAIN message :
                    message[i] = "\n" /\ \A j \in 1..(i - 1) : message[j] # "\n") - 1)
    ELSE message

ReadHeader(message) ==
    LET line == HeaderLine(message)
        open == CHOOSE i \in DOMAIN line :
                    line[i] = "(" /\ \A j \in 1..(i - 1) : line[j] # "("
    IN  IF (\E i \in DOMAIN line : line[i] = "(") /\ open >= 2
           /\ line[open - 1] = " " /\ line[Len(line)] = ")"
        THEN [day_name |-> SubSeq(line, 1, open - 2),
              date_iso |-> SubSeq(line, open + 1, Len(line) - 1)]
        ELSE [day_name |-> <<>>, date_iso |-> <<>>]

\* The Analyses analyse_snapshot returns for the response texts above.
Analyses ==
    {AnalyseSnapshot(r, snapshot).value :
        r \in {t \in RawTexts : AnalyseSnapshot(t, CHOOSE x \in Snapshots : TRUE).type = "return"},
        snapshot \in Snapshots}

InitFormat ==
    /\ pc = "call"
    /\ NoRun
    /\ output = NoValue
    /\ \E a \in Analyses : input = [fn |-> "format_message", analysis |-> a]

CallFormatMessage ==
    /\ pc = "call"
    /\ input.fn = "format_message"
    /\ output' = FormatMessage(input.analysis)
    /\ pc' = "done"
    /\ UNCHANGED <<input, runVars>>

NextFormat == CallFormatMessage

SpecFormat == InitFormat /\ [][NextFormat]_vars

\* C20: for every Analysis, format_message returns a message whose header
\* line reads back as the Analysis's day_name and date_iso.
C20_HeaderRoundTrip ==
    (pc = "done" /\ input.fn = "format_message") =>
        /\ output.type = "return"
        /\ ReadHeader(output.value) =
              [day_name |-> <<input.analysis.day_name>>,
               date_iso |-> <<input.analysis.date_iso>>]

----------------------------------------------------------------------------
(***************************************************************************)
(* TeeSheetBrowser.snapshot_for_date on its own: what the page does decides  *)
(* whether a Snapshot is returned.                                           *)
(***************************************************************************)

\* Whether the extraction calls after the table lookup all return: with the
\* table, table.inner_html() and table.inner_text(); without it,
\* page.content() and locator("main").inner_text(timeout=1000), which times out
\* when the page has no main region.
ReadOk(tablePresent, mainPresent, callsOk) ==
    IF tablePresent THEN callsOk ELSE mainPresent /\ callsOk

InitSnapshot ==
    /\ pc = "call"
    /\ NoRun
    /\ output = NoValue
    /\ \E pg \in {"None", "set"}, date \in Dates,
          gotoOk, idleOk, tablePresent, mainPresent, callsOk \in BOOLEAN :
            input = [fn |-> "snapshot_for_date", page |-> pg, date |-> date,
                     gotoOk |-> gotoOk, idleOk |-> idleOk,
                     tablePresent |-> tablePresent, mainPresent |-> mainPresent,
                     callsOk |-> callsOk]

CallSnapshotForDate ==
    /\ pc = "call"
    /\ input.fn = "snapshot_for_date"
    /\ LET r == SnapshotForDate(input.page, input.gotoOk, input.idleOk,
                                input.tablePresent,
                                ReadOk(input.tablePresent, input.mainPresent,
                                       input.callsOk))
       IN  output' = IF r = "raise"
                     THEN Raised("Error")
                     ELSE Returned([date |-> input.date, fragment |-> r])
    /\ pc' = "done"
    /\ UNCHANGED <<input, runVars>>

NextSnapshot == CallSnapshotForDate

SpecSnapshot == InitSnapshot /\ [][NextSnapshot]_vars

\* C21: when the page is set, the navigation succeeds and the extraction calls
\* work on a page with table and main region, snapshot_for_date returns a
\* Snapshot also when the network-idle wait timed out.
C21_IdleTimeoutNotFatal ==
    (/\ pc = "done"
     /\ input.fn = "snapshot_for_date"
     /\ input.page = "set"
     /\ input.gotoOk
     /\ input.mainPresent
     /\ input.callsOk
     /\ ~input.idleOk)
        => output.type = "return"

\* C22: when the page is loaded and the table container is absent,
\* snapshot_for_date returns a Snapshot built from the whole page, with or
\* without a main region on the page.
C22_TableAbsentFallsBack ==
    (/\ pc = "done"
     /\ input.fn = "snapshot_for_date"
     /\ input.page = "set"
     /\ input.gotoOk
     /\ input.idleOk
     /\ input.callsOk
     /\ ~input.tablePresent)
        => /\ output.type = "return"
           /\ output.value.fragment = "page"

----------------------------------------------------------------------------
(***************************************************************************)
(* The school-portal agent: edulink_agent.main.cli calling                   *)
(* scraper.collect_report.  The log `calls`, `playwright`, `browser`,        *)
(* `output` and `exitStatus` are used as in the run above; `frame` holds     *)
(* collect_report's local variables.                                         *)
(***************************************************************************)

\* The variables collect_report and cli do not touch.
otherVars == <<targets, idx, instances, context, page, snapshots, attempt, analysis,
               delivered, failures, events, inflight, input>>

\* What the three collectors can return.
HomeworkResults == {[items |-> <<>>], [items |-> <<"homework">>]}

BehaviourResults ==
    {[points |-> "0", items |-> <<>>], [points |-> "3", items |-> <<"behaviour">>]}

MailResults == {[items |-> <<>>], [items |-> <<"mail">>]}

InitCollect ==
    /\ pc = "collect"
    /\ NoRun
    /\ output = NoValue
    /\ input = [fn |-> "collect_report"]

\* async with async_playwright() as playwright: the driver starts, or the
\* exception leaves collect_report.
EnterPlaywright ==
    /\ pc = "collect"
    /\ \E ok \in BOOLEAN :
        /\ calls' = Append(calls, Call("start_playwright", 0, ok))
        /\ frame' = [homework |-> NoValue, behaviour |-> NoValue, mail |-> NoValue,
                     exc |-> IF ok THEN "None" ELSE "start_playwright"]
        /\ playwright' = IF ok THEN "running" ELSE playwright
        /\ output' = IF ok THEN output ELSE Raised("start_playwright")
        /\ pc' = IF ok THEN "c_launch" ELSE "c_done"
    /\ UNCHANGED <<browser, exitStatus, otherVars>>

\* browser = await _launch_browser(...), before the try: a failure goes to the
\* exit of the async with, with no browser to close.
LaunchChromium ==
    /\ pc = "c_launch"
    /\ \E ok \in BOOLEAN :
        /\ calls' = Append(calls, Call("launch", 0, ok))
        /\ browser' = IF ok THEN "open" ELSE browser
        /\ frame' = [frame EXCEPT !.exc = IF ok THEN "None" ELSE "launch"]
        /\ pc' = IF ok THEN "c_new_context" ELSE "c_exit_playwright"
    /\ UNCHANGED <<playwright, output, exitStatus, otherVars>>

\* try ... finally: where an exception raised in the try body goes.
AfterBodyErrorMutant == "c_exit_playwright"
AfterBodyError == "c_finally"

\* One awaited call of the try body: it returns `result`, which `field` of the
\* frame receives, and the body goes on at `next`; or it raises and the
\* finally clause runs.
BodyCall(op, next, results, field) ==
    /\ \/ \E result \in results :
            /\ calls' = Append(calls, Call(op, 0, TRUE))
            /\ frame' = IF field = "none" THEN frame ELSE [frame EXCEPT ![field] = result]
            /\ pc' = next
       \/ /\ calls' = Append(calls, Call(op, 0, FALSE))
          /\ frame' = [frame EXCEPT !.exc = op]
          /\ pc' = AfterBodyError
    /\ UNCHANGED <<playwright, browser, output, exitStatus, otherVars>>

NewContextCollect ==
    /\ pc = "c_new_context"
    /\ BodyCall("new_context", "c_new_page", {NoValue}, "none")

NewPageCollect ==
    /\ pc = "c_new_page"
    /\ BodyCall("new_page", "c_login", {NoValue}, "none")

LoginCollect ==
    /\ pc = "c_login"
    /\ BodyCall("login", "c_homework", {NoValue}, "none")

CollectHomework ==
    /\ pc = "c_homework"
    /\ BodyCall("homework", "c_behaviour", HomeworkResults, "homework")

CollectBehaviour ==
    /\ pc = "c_behaviour"
    /\ BodyCall("behaviour", "c_mail", BehaviourResults, "behaviour")

CollectMail ==
    /\ pc = "c_mail"
    /\ BodyCall("mail", "c_finally", MailResults, "mail")

\* finally: await browser.close(); its own exception replaces the one in flight.
CloseBrowserCollect ==
    /\ pc = "c_finally"
    /\ \E ok \in BOOLEAN :
        /\ calls' = Append(calls, Call("close_browser", 0, ok))
        /\ browser' = IF ok THEN "closed" ELSE browser
        /\ frame' = IF ok THEN frame ELSE [frame EXCEPT !.exc = "close_browser"]
    /\ pc' = "c_exit_playwright"
    /\ UNCHANGED <<playwright, output, exitStatus, otherVars>>

\* The report built from the frame.
EdulinkReport(f) ==
    [total_achievement_points |-> f.behaviour.points,
     homework_outstanding |-> f.homework.items,
     behaviour_new |-> f.behaviour.items,
     mailbox_new |-> f.mail.items]

\* Exit of the async with (the driver stops), then the return statement or the
\* exception in flight.
ExitPlaywright ==
    /\ pc = "c_exit_playwright"
    /\ \E ok \in BOOLEAN :
        LET exc == IF ok THEN frame.exc ELSE "stop_playwright"
        IN  /\ calls' = Append(calls, Call("stop_playwright", 0, ok))
            /\ playwright' = IF ok THEN "stopped" ELSE playwright
            /\ frame' = [frame EXCEPT !.exc = exc]
            /\ output' = IF exc = "None"
                         THEN Returned(EdulinkReport(frame))
                         ELSE Raised(exc)
    /\ pc' = "c_done"
    /\ UNCHANGED <<browser, exitStatus, otherVars>>

\* edulink cli: build_summary on the report, and the exit status.
CliCollect ==
    /\ pc = "c_done"
    /\ \E summaryOk \in BOOLEAN :
        exitStatus' = IF output.type = "return" /\ summaryOk THEN 0 ELSE 1
    /\ pc' = "c_exited"
    /\ UNCHANGED <<playwright, browser, calls, frame, output, otherVars>>

NextCollect ==
    \/ EnterPlaywright
    \/ LaunchChromium
    \/ NewContextCollect
    \/ NewPageCollect
    \/ LoginCollect
    \/ CollectHomework
    \/ CollectBehaviour
    \/ CollectMail
    \/ CloseBrowserCollect
    \/ ExitPlaywright
    \/ CliCollect

SpecCollect == InitCollect /\ [][NextCollect]_vars

\* collect_report has returned or raised.
CollectEnded == pc \in {"c_done", "c_exited"}

\* The four collection steps, in the order of the try body.
CollectSteps == <<"login", "homework", "behaviour", "mail">>

\* C28: when collect_report has ended: a report was returned only after login,
\* homework, behaviour and mailbox collection each ran once, returned, in that
\* order, and the report holds exactly what they returned; a step that raised
\* made collect_report raise with no later step run; and a launched browser
\* got exactly one close call, after every call on the page and before the end,
\* which closed it when it returned.
C28_CollectAllOrNothing ==
    CollectEnded =>
        /\ output.type \in {"return", "raise"}
        /\ output.type = "return" =>
            /\ \A i \in DOMAIN CollectSteps :
                /\ Cardinality(CallOps({CollectSteps[i]})) = 1
                /\ \A k \in CallOps({CollectSteps[i]}) : calls[k].ok
            /\ \A i, j \in DOMAIN CollectSteps :
                i < j => \A a \in CallOps({CollectSteps[i]}), b \in CallOps({CollectSteps[j]}) :
                            a < b
            /\ frame.homework \in HomeworkResults
            /\ frame.behaviour \in BehaviourResults
            /\ frame.mail \in MailResults
            /\ output.value = [total_achievement_points |-> frame.behaviour.points,
                               homework_outstanding |-> frame.homework.items,
                               behaviour_new |-> frame.behaviour.items,
                               mailbox_new |-> frame.mail.items]
        /\ \A k \in CallOps({"login", "homework", "behaviour", "mail"}) :
            ~calls[k].ok =>
                /\ output.type = "raise"
                /\ \A l \in DOMAIN calls :
                    l > k => calls[l].op \in {"close_browser", "stop_playwright"}
        /\ IF \E k \in CallOps({"launch"}) : calls[k].ok
           THEN /\ Cardinality(CallOps({"close_browser"})) = 1
                /\ \A c \in CallOps({"close_browser"}) :
                    /\ \A l \in DOMAIN calls :
                        l > c => calls[l].op = "stop_playwright"
                    /\ calls[c].ok => browser = "closed"
           ELSE CallOps({"close_browser"}) = {}

\* C28 witness: login and the homework collection returned, the behaviour
\* collection raised, the browser was closed and collect_report raised that
\* failure.
C28_Witness ==
    /\ CollectEnded
    /\ \E k \in CallOps({"homework"}) : calls[k].ok
    /\ \E k \in CallOps({"behaviour"}) : ~calls[k].ok
    /\ browser = "closed"
    /\ output = Raised("behaviour")

====
